---- MODULE Spec2Model ----
(***************************************************************************)
(* react-native-background-guardian: the Android wake-lock manager of      *)
(* BackgroundGuardianModule (acquireWakeLock / releaseWakeLock /           *)
(* isWakeLockHeld) together with the part of android.os.PowerManager it    *)
(* talks to: the wake locks it created, whether each is held, and the      *)
(* timer that force-releases a lock acquired with a timeout; the battery-   *)
(* optimization methods, the settings navigator with its ordered targets   *)
(* and getDeviceManufacturer of the same module, on a device with its API  *)
(* level, manufacturer and exemption status; the iOS module, whose methods *)
(* resolve with fixed values; the functions of the JS facade over the      *)
(* native module; the screen keep-awake flag set on the UI thread; and the *)
(* wake-lock requests a caller issues without awaiting them.               *)
(***************************************************************************)
EXTENDS Integers, Sequences, FiniteSets, TLC

\* ------------------------------------------------------------------ bounds
\* Wake-lock objects alive at once (the tracked one and those a failed release left held).
MaxLocks == 2
\* Largest timeout (in clock ticks) a caller passes.
MaxTimeout == 1

\* --------------------------------------------------------------- constants
WAKE_LOCK_TAG == "BackgroundGuardian:WakeLock"

\* The null reference of `private var wakeLock: PowerManager.WakeLock? = null`.
NoLock == 0

\* The null reference of a String?: a value no sequence of characters equals.
Null == <<"<null>">>

\* Build.VERSION_CODES.M: Android 6.0, the release that introduced Doze and
\* the battery-optimization exemption.
VERSION_CODES_M == 23

\* Tags a caller passes (the empty tag selects the default namespace tag).
Tags == {"", "Sync", "Other"}
\* Timeouts a caller passes; 0 expires at once.
Timeouts == 0..MaxTimeout

\* What the OS does when asked for a new lock: the power service is there and
\* the acquisition works, getSystemService returns null, acquire throws a
\* SecurityException (WAKE_LOCK not granted), newWakeLock/acquire throws
\* anything else.
AcquireOutcomes == {"ok", "noService", "denied", "error"}
\* What WakeLock.release() does: it works, or it throws; a release that threw
\* leaves the OS lock either released or still held.
ReleaseOutcomes == {"ok", "throwsReleased", "throwsStillHeld"}

VARIABLES
  wakeLock,              \* the module's field: NoLock or the id of a lock in locks
  locks,                 \* the OS: the wake-lock objects of the module, by id
  isHeldMayThrow,        \* the OS: whether WakeLock.isHeld can throw
  event,                 \* the last event: the method called, or "os" for an OS step
  argTag,                \* the tag argument of that call ("-" when it takes none)
  promise,               \* the value the last call resolved its promise with
  osCall,                \* the last OS call that call made: none, isHeld,
                         \* getSystemService, acquire, release
  osFailure,             \* how that OS call failed: none, noService, denied, error, throws
  prevRelease,           \* the result of releaseWakeLock if it was the event before the last
  createdSinceRelease,   \* OS locks acquired since the last releaseWakeLock call (2 = two or more)
  expiredSinceRelease,   \* whether the tracked lock timed out since that call
  sdkInt,                \* the device: Build.VERSION.SDK_INT
  manufacturer,          \* the device: Build.MANUFACTURER, a sequence of characters or Null
  exempt,                \* the OS: whether the user exempted the app from battery optimization
  tried,                 \* the settings targets the last call went through, each with what
                         \* the OS did with it
  promiseString,         \* the string (or Null) the last getDeviceManufacturer resolved with
  settled,               \* how the last call ended: "resolved", or "threw" when an error
                         \* left the handler before it resolved the promise
  prevEvent,             \* the event before the last one
  powerQuery,            \* what asking the power service for the exemption status did in
                         \* the last call: "none" when it was not asked
  platform,              \* the native module behind the facade: "android" or "ios"
  facade,                \* the last call of a function of the JS facade: what the caller
                         \* passed, what the native method got and did, what the caller got
  hasActivity,           \* Android: whether currentActivity is an activity (not null)
  keepScreenOn,          \* Android: FLAG_KEEP_SCREEN_ON of the window of that activity
  uiQueue,               \* Android: the runnables posted to the UI thread and not run yet
  flagged,               \* the intents of oemSettingsIntents that carry FLAG_ACTIVITY_NEW_TASK
  queue,                 \* the wake-lock requests the caller issued that the native-module
                         \* thread has not run yet
  pair                   \* two acquires issued together: whether they are under way, and the
                         \* OS locks they created

\* The state of the wake-lock manager and of the OS locks.
wakeLockVars == <<wakeLock, locks, isHeldMayThrow, prevRelease, createdSinceRelease,
                  expiredSinceRelease>>

\* The state of the device, and the record of the last call to a method other
\* than the three wake-lock methods.
deviceVars == <<sdkInt, manufacturer, exempt, tried, promiseString, settled, prevEvent,
                powerQuery, platform, facade, hasActivity, keepScreenOn, uiQueue, flagged>>

\* The facade, the screen and the UI thread.
screenVars == <<facade, hasActivity, keepScreenOn, uiQueue>>

\* The requests waiting for the native-module thread.
queueVars == <<queue, pair>>

vars == <<wakeLock, locks, isHeldMayThrow, event, argTag, promise, osCall, osFailure, prevRelease,
          createdSinceRelease, expiredSinceRelease, sdkInt, manufacturer, exempt, tried,
          promiseString, settled, prevEvent, powerQuery, platform, facade, hasActivity,
          keepScreenOn, uiQueue, flagged, queue, pair>>

\* ----------------------------------------------------------------- helpers
Min(a, b) == IF a < b THEN a ELSE b

\* `val wakeLockTag = if (tag.isNotEmpty()) "$WAKE_LOCK_TAG:$tag" else WAKE_LOCK_TAG`
WakeLockTag(tag) == IF tag # "" THEN WAKE_LOCK_TAG \o ":" \o tag ELSE WAKE_LOCK_TAG

\* The timer value of a lock acquired without a timeout: it never fires.
NoTimer == -1

NewWakeLockNoTimeout(tag, timeout) ==
  [tag |-> WakeLockTag(tag), remaining |-> NoTimer, held |-> TRUE,
   releaseFailed |-> FALSE]

\* powerManager.newWakeLock(PARTIAL_WAKE_LOCK, wakeLockTag).apply { acquire(timeout.toLong()) }
\* The OS holds the lock and arms the timer that releases it after `timeout`.
NewWakeLock(tag, timeout) ==
  [tag |-> WakeLockTag(tag), remaining |-> timeout, held |-> TRUE,
   releaseFailed |-> FALSE]

\* What isHeld answers: "throws" only where the OS query can fail.
QueryOutcomes == IF isHeldMayThrow THEN {"ok", "throws"} ELSE {"ok"}

\* The lock objects still reachable: the one the field `wakeLock` refers to, and
\* those the OS still holds. An object that is neither is garbage.
Collect(ls, wl) == [i \in {j \in DOMAIN ls : ls[j].held \/ j = wl} |-> ls[i]]

\* The id of the next lock object.
FreeId(ls) == CHOOSE i \in (1..MaxLocks) \ DOMAIN ls :
                \A j \in (1..MaxLocks) \ DOMAIN ls : i <= j

AlreadyHeldNever == FALSE

AlreadyHeldTracked == wakeLock # NoLock

\* `wakeLock?.let { if (it.isHeld) ... }`: a handle is tracked and the OS reports it held.
AlreadyHeld == wakeLock # NoLock /\ locks[wakeLock].held

AcquireFailureHandleCleared == NoLock

\* The field after an acquireWakeLock that resolved false: no assignment ran.
AcquireFailureHandle == wakeLock

ReleaseFailureHandleKept == wakeLock

\* The field after release() threw: `wakeLock = null` in the catch block.
ReleaseFailureHandle == NoLock

ReleaseStaleHandleKept == wakeLock

\* The field after "Wake lock already released": `wakeLock = null`.
ReleaseStaleHandle == NoLock

IsWakeLockHeldValueTracked(q) == wakeLock # NoLock

\* `wakeLock?.isHeld == true`, and false from the catch block when the query throws.
IsWakeLockHeldValue(q) ==
  IF wakeLock = NoLock THEN FALSE
  ELSE IF q = "throws" THEN FALSE
  ELSE locks[wakeLock].held

Remember ==
  prevRelease' = IF event # "releaseWakeLock" THEN "none"
                 ELSE IF promise THEN "resolvedTrue" ELSE "resolvedFalse"

\* ------------------------------------------------------------------- Init
\* The device the wake-lock manager is studied on: Android 6.0, nothing called yet.
DefaultDevice ==
  /\ platform = "android"
  /\ sdkInt = VERSION_CODES_M
  /\ manufacturer = Null
  /\ exempt = FALSE
  /\ tried = << >>
  /\ promiseString = Null
  /\ settled = "resolved"
  /\ prevEvent = "init"
  /\ powerQuery = "none"

\* No function of the facade called yet.
NoFacadeCall == [fn |-> "none"]

\* No two acquires issued together yet.
NoPair == [phase |-> "idle", created |-> 0, expired |-> FALSE]

\* No wake lock yet, nothing called yet.
NothingCalled ==
  /\ facade = NoFacadeCall
  /\ hasActivity = FALSE
  /\ keepScreenOn = FALSE
  /\ uiQueue = << >>
  /\ flagged = {}
  /\ queue = << >>
  /\ pair = NoPair
  /\ wakeLock = NoLock
  /\ locks = << >>
  /\ event = "init"
  /\ argTag = "-"
  /\ promise = FALSE
  /\ osCall = "none"
  /\ osFailure = "none"
  /\ prevRelease = "none"
  /\ createdSinceRelease = 0
  /\ expiredSinceRelease = FALSE

InitCommon == DefaultDevice /\ NothingCalled

\* WakeLock.isHeld reads a field of the client-side lock object: it has no
\* failure mode.
Init == InitCommon /\ isHeldMayThrow = FALSE

\* The same module against an OS whose isHeld query can throw.
InitFaultyQuery == InitCommon /\ isHeldMayThrow = TRUE

\* ---------------------------------------------------------------- actions
\* override fun acquireWakeLock(tag: String, timeout: Double, promise: Promise)
acquireWakeLock(tag, timeout, os, q) ==
  /\ event' = "acquireWakeLock"
  /\ argTag' = tag
  /\ Remember
  /\ UNCHANGED <<isHeldMayThrow, expiredSinceRelease>>
  /\ UNCHANGED deviceVars
  /\ IF wakeLock # NoLock /\ q = "throws"
     THEN \* it.isHeld throws: catch, resolve(false)
          /\ promise' = FALSE
          /\ osCall' = "isHeld"
          /\ osFailure' = "throws"
          /\ wakeLock' = AcquireFailureHandle
          /\ locks' = Collect(locks, wakeLock')
          /\ UNCHANGED createdSinceRelease
     ELSE IF AlreadyHeld
     THEN \* "Wake lock already held, skipping acquisition"
          /\ promise' = TRUE
          /\ osCall' = "isHeld"
          /\ osFailure' = "none"
          /\ UNCHANGED <<wakeLock, locks, createdSinceRelease>>
     ELSE IF os = "noService"
     THEN \* "PowerManager service not available"
          /\ promise' = FALSE
          /\ osCall' = "getSystemService"
          /\ osFailure' = "noService"
          /\ wakeLock' = AcquireFailureHandle
          /\ locks' = Collect(locks, wakeLock')
          /\ UNCHANGED createdSinceRelease
     ELSE IF os # "ok"
     THEN \* newWakeLock or acquire throws: catch, resolve(false)
          /\ promise' = FALSE
          /\ osCall' = "acquire"
          /\ osFailure' = os
          /\ wakeLock' = AcquireFailureHandle
          /\ locks' = Collect(locks, wakeLock')
          /\ UNCHANGED createdSinceRelease
     ELSE \* the lock is created, acquired with the timeout and recorded
          /\ Cardinality(DOMAIN Collect(locks, NoLock)) < MaxLocks
          /\ LET rest == Collect(locks, NoLock)
                 id   == FreeId(rest)
             IN /\ locks' = [i \in DOMAIN rest \cup {id} |->
                               IF i = id THEN NewWakeLock(tag, timeout) ELSE rest[i]]
                /\ wakeLock' = id
          /\ promise' = TRUE
          /\ osCall' = "acquire"
          /\ osFailure' = "none"
          /\ createdSinceRelease' = Min(createdSinceRelease + 1, 2)

\* override fun releaseWakeLock(promise: Promise)
releaseWakeLock(os, q) ==
  /\ event' = "releaseWakeLock"
  /\ argTag' = "-"
  /\ Remember
  /\ UNCHANGED isHeldMayThrow
  /\ UNCHANGED deviceVars
  /\ createdSinceRelease' = 0
  /\ expiredSinceRelease' = FALSE
  /\ IF wakeLock = NoLock
     THEN \* "No wake lock to release"
          /\ promise' = TRUE
          /\ osCall' = "none"
          /\ osFailure' = "none"
          /\ UNCHANGED <<wakeLock, locks>>
     ELSE IF q = "throws"
     THEN \* currentWakeLock.isHeld throws: catch, clear, resolve(false)
          /\ promise' = FALSE
          /\ osCall' = "isHeld"
          /\ osFailure' = "throws"
          /\ wakeLock' = ReleaseFailureHandle
          /\ locks' = Collect([locks EXCEPT ![wakeLock].releaseFailed = TRUE], wakeLock')
     ELSE IF ~locks[wakeLock].held
     THEN \* "Wake lock already released"
          /\ promise' = TRUE
          /\ osCall' = "isHeld"
          /\ osFailure' = "none"
          /\ wakeLock' = ReleaseStaleHandle
          /\ locks' = Collect(locks, wakeLock')
     ELSE IF os = "ok"
     THEN \* currentWakeLock.release(); wakeLock = null
          /\ promise' = TRUE
          /\ osCall' = "release"
          /\ osFailure' = "none"
          /\ wakeLock' = NoLock
          /\ locks' = Collect([locks EXCEPT ![wakeLock].held = FALSE], wakeLock')
     ELSE \* release() throws: catch, clear the reference, resolve(false)
          /\ promise' = FALSE
          /\ osCall' = "release"
          /\ osFailure' = "throws"
          /\ wakeLock' = ReleaseFailureHandle
          /\ locks' = Collect([locks EXCEPT ![wakeLock].held = (os = "throwsStillHeld"),
                                            ![wakeLock].releaseFailed = TRUE], wakeLock')

\* override fun isWakeLockHeld(promise: Promise)
isWakeLockHeld(q) ==
  /\ event' = "isWakeLockHeld"
  /\ argTag' = "-"
  /\ Remember
  /\ promise' = IsWakeLockHeldValue(q)
  /\ osCall' = (IF wakeLock # NoLock THEN "isHeld" ELSE "none")
  /\ osFailure' = (IF wakeLock # NoLock /\ q = "throws" THEN "throws" ELSE "none")
  /\ UNCHANGED <<wakeLock, locks, isHeldMayThrow, createdSinceRelease, expiredSinceRelease>>
  /\ UNCHANGED deviceVars

\* The OS clock advances by one tick; the timer of a held lock fires no later
\* than its deadline, so time does not pass a timer that is due.
Tick ==
  /\ \A l \in DOMAIN locks : locks[l].held => locks[l].remaining # 0
  /\ locks' = [l \in DOMAIN locks |->
                 IF locks[l].held /\ locks[l].remaining > 0
                 THEN [locks[l] EXCEPT !.remaining = @ - 1] ELSE locks[l]]
  /\ event' = "os"
  /\ Remember
  /\ UNCHANGED <<wakeLock, isHeldMayThrow, argTag, promise, osCall, osFailure,
                 createdSinceRelease, expiredSinceRelease>>
  /\ UNCHANGED deviceVars
  /\ UNCHANGED queueVars

\* The OS timer armed by acquire(timeout) releases lock l.
OSTimeout(l) ==
  /\ locks[l].held
  /\ locks[l].remaining = 0
  /\ locks' = Collect([locks EXCEPT ![l].held = FALSE], wakeLock)
  /\ expiredSinceRelease' = (expiredSinceRelease \/ l = wakeLock)
  /\ event' = "os"
  /\ Remember
  /\ UNCHANGED <<wakeLock, isHeldMayThrow, argTag, promise, osCall, osFailure,
                 createdSinceRelease>>
  /\ UNCHANGED deviceVars
  /\ pair' = [pair EXCEPT !.expired = @ \/ (pair.phase = "running" /\ l = wakeLock)]
  /\ UNCHANGED queue

Acquire == \E tag \in Tags, timeout \in Timeouts, os \in AcquireOutcomes, q \in QueryOutcomes :
             acquireWakeLock(tag, timeout, os, q) /\ UNCHANGED queueVars

Release == \E os \in ReleaseOutcomes, q \in QueryOutcomes :
             releaseWakeLock(os, q) /\ UNCHANGED queueVars

IsHeld == \E q \in QueryOutcomes : isWakeLockHeld(q) /\ UNCHANGED queueVars

Expire == \E l \in DOMAIN locks : OSTimeout(l)

Next == Acquire \/ Release \/ IsHeld \/ Tick \/ Expire

Spec == Init /\ [][Next]_vars

\* The scheduling of the OS: time passes and an armed timer fires.
FairSpec == Init /\ [][Next]_vars /\ WF_vars(Tick) /\ WF_vars(Expire)

SpecFaultyQuery == InitFaultyQuery /\ [][Next]_vars

\* ------------------------------------------- battery-optimization gateway
\* API levels of the devices studied: Android 5.1 and Android 6.0.
SdkLevels == {VERSION_CODES_M - 1, VERSION_CODES_M}

\* What asking the power service for the exemption status does: it answers,
\* getSystemService returns null, or the call throws an Exception.
PowerQueryOutcomes == {"ok", "noService", "throws"}
\* What PackageManager says of an intent: some activity handles it, none does,
\* or the query throws.
ProbeOutcomes == {"resolves", "unresolved", "throws"}
\* What startActivity does: the activity starts, or it throws
\* ActivityNotFoundException, SecurityException or another Exception.
LaunchOutcomes == {"ok", "notFound", "security", "error"}

REQUEST_IGNORE_BATTERY_OPTIMIZATIONS == "android.settings.REQUEST_IGNORE_BATTERY_OPTIMIZATIONS"

\* PowerManager.isIgnoringBatteryOptimizations exists from API 23 on: on an
\* older device the call raises NoSuchMethodError, which is not an Exception.
HasBatteryOptimizationApi == sdkInt >= VERSION_CODES_M

OsReportsExemptNever(pm) == FALSE

\* `powerManager?.isIgnoringBatteryOptimizations(packageName) == true`
OsReportsExempt(pm) == pm = "ok" /\ exempt

StartedAlways(o) == TRUE

\* startActivity returned without throwing
Started(o) == o = "ok"

IsIgnoringValueTrueOnFailure(pm) == pm = "throws" \/ exempt

\* `val isIgnoring = powerManager.isIgnoringBatteryOptimizations(packageName)`
\* after the null check of powerManager; false when the call throws.
IsIgnoringValue(pm) == pm = "ok" /\ exempt

\* An entry of `tried`: the target, and "ok" (startActivity started it),
\* "failed" (startActivity threw) or "skipped" (the probe found no handler, so
\* startActivity was not called).
Entry(t, o) == [target |-> t, outcome |-> o]

\* The positions of `tr` where startActivity was called, and where it started
\* the activity.
Attempted(tr) == {i \in DOMAIN tr : tr[i].outcome # "skipped"}
Launched(tr) == {i \in DOMAIN tr : tr[i].outcome = "ok"}

\* What every call of a method of this section records.
Called(name) ==
  /\ platform = "android"
  /\ event' = name
  /\ argTag' = "-"
  /\ UNCHANGED wakeLockVars
  /\ UNCHANGED <<sdkInt, manufacturer, prevEvent, platform>>
  /\ UNCHANGED screenVars
  /\ UNCHANGED queueVars

\* override fun isIgnoringBatteryOptimizations(promise: Promise)
isIgnoringBatteryOptimizations(pm) ==
  /\ Called("isIgnoringBatteryOptimizations")
  /\ osCall' = (IF pm = "noService" THEN "getSystemService" ELSE "isIgnoringBatteryOptimizations")
  /\ tried' = << >>
  /\ UNCHANGED <<exempt, promiseString, flagged>>
  /\ powerQuery' = (IF pm # "noService" /\ ~HasBatteryOptimizationApi THEN "noSuchMethod" ELSE pm)
  /\ IF pm = "noService"
     THEN \* "PowerManager service not available": resolve(false)
          /\ promise' = FALSE
          /\ settled' = "resolved"
          /\ osFailure' = "noService"
     ELSE IF ~HasBatteryOptimizationApi
     THEN \* NoSuchMethodError passes `catch (e: Exception)`
          /\ settled' = "threw"
          /\ osFailure' = "noSuchMethod"
          /\ UNCHANGED promise
     ELSE \* resolve(isIgnoring), or catch: resolve(false)
          /\ promise' = IsIgnoringValue(pm)
          /\ settled' = "resolved"
          /\ osFailure' = (IF pm = "throws" THEN "throws" ELSE "none")

\* override fun requestBatteryOptimizationExemption(promise: Promise)
requestBatteryOptimizationExemption(pm, probe, launch) ==
  /\ Called("requestBatteryOptimizationExemption")
  /\ UNCHANGED <<exempt, promiseString, flagged>>
  /\ powerQuery' = (IF pm # "noService" /\ ~HasBatteryOptimizationApi THEN "noSuchMethod" ELSE pm)
  /\ IF pm # "noService" /\ ~HasBatteryOptimizationApi
     THEN \* NoSuchMethodError passes both catch clauses
          /\ settled' = "threw"
          /\ osCall' = "isIgnoringBatteryOptimizations"
          /\ osFailure' = "noSuchMethod"
          /\ tried' = << >>
          /\ UNCHANGED promise
     ELSE IF pm = "throws"
     THEN \* catch (e: Exception): resolve(false)
          /\ settled' = "resolved"
          /\ promise' = FALSE
          /\ osCall' = "isIgnoringBatteryOptimizations"
          /\ osFailure' = "throws"
          /\ tried' = << >>
     ELSE IF OsReportsExempt(pm)
     THEN \* "Already ignoring battery optimizations": resolve(true)
          /\ settled' = "resolved"
          /\ promise' = TRUE
          /\ osCall' = "isIgnoringBatteryOptimizations"
          /\ osFailure' = "none"
          /\ tried' = << >>
     ELSE IF probe # "resolves"
     THEN \* intent.resolveActivity(packageManager) == null: resolve(false);
          \* resolveActivity throws: catch, resolve(false)
          /\ settled' = "resolved"
          /\ promise' = FALSE
          /\ osCall' = "resolveActivity"
          /\ osFailure' = probe
          /\ tried' = <<Entry(REQUEST_IGNORE_BATTERY_OPTIMIZATIONS, "skipped")>>
     ELSE \* startActivity(intent); resolve(true), or catch: resolve(false)
          /\ settled' = "resolved"
          /\ promise' = Started(launch)
          /\ osCall' = "startActivity"
          /\ osFailure' = (IF launch = "ok" THEN "none" ELSE launch)
          /\ tried' = <<Entry(REQUEST_IGNORE_BATTERY_OPTIMIZATIONS,
                               IF launch = "ok" THEN "ok" ELSE "failed")>>

\* The user grants the exemption, in the dialog or in the system settings, or
\* takes it back. The OS tells the module nothing.
UserSetsExemption(b) ==
  /\ platform = "android"
  /\ HasBatteryOptimizationApi
  /\ exempt # b
  /\ exempt' = b
  /\ event' = "os"
  /\ UNCHANGED wakeLockVars
  /\ UNCHANGED <<argTag, promise, osCall, osFailure, sdkInt, manufacturer, tried, promiseString,
                 settled, prevEvent, powerQuery, platform, flagged>>
  /\ UNCHANGED screenVars
  /\ UNCHANGED queueVars

\* ------------------------------------------------------- device identity
UpperCaseLetters == <<"A", "B", "C", "D", "E", "F", "G", "H", "I", "J", "K", "L", "M",
                      "N", "O", "P", "Q", "R", "S", "T", "U", "V", "W", "X", "Y", "Z">>
LowerCaseLetters == <<"a", "b", "c", "d", "e", "f", "g", "h", "i", "j", "k", "l", "m",
                      "n", "o", "p", "q", "r", "s", "t", "u", "v", "w", "x", "y", "z">>

\* Char.lowercaseChar() for the characters of manufacturer names.
LowercaseChar(c) ==
  IF \E i \in DOMAIN UpperCaseLetters : UpperCaseLetters[i] = c
  THEN LowerCaseLetters[CHOOSE i \in DOMAIN UpperCaseLetters : UpperCaseLetters[i] = c]
  ELSE c

LowercaseKept(str) == str

\* String.lowercase()
Lowercase(str) == [i \in DOMAIN str |-> LowercaseChar(str[i])]

\* CharSequence?.isNullOrBlank(): null, empty, or whitespace only
IsNullOrBlank(str) == str = Null \/ \A i \in DOMAIN str : str[i] = " "

\* The string a sequence of characters spells, as the key of a map.
RECURSIVE Spell(_)
Spell(str) == IF str = << >> THEN "" ELSE Head(str) \o Spell(Tail(str))

\* Build.MANUFACTURER of the devices studied. It is the system property
\* ro.product.manufacturer: a string in the vendor's own capitalisation, with a
\* profile in the table ("Xiaomi", "HUAWEI", "samsung") or without ("Google"),
\* possibly empty or blank, never a null reference.
Manufacturers ==
  { <<"X", "i", "a", "o", "m", "i">>,
    <<"H", "U", "A", "W", "E", "I">>,
    <<"s", "a", "m", "s", "u", "n", "g">>,
    <<"G", "o", "o", "g", "l", "e">>,
    << >>,
    <<" ">> }

ManufacturerValueRaw(m) == IF IsNullOrBlank(m) THEN Null ELSE m

\* What getDeviceManufacturer resolves with: null for a null or blank
\* Build.MANUFACTURER, else manufacturer.lowercase().
ManufacturerValue(m) == IF IsNullOrBlank(m) THEN Null ELSE Lowercase(m)

\* override fun getDeviceManufacturer(promise: Promise)
getDeviceManufacturer ==
  /\ Called("getDeviceManufacturer")
  /\ promiseString' = ManufacturerValue(manufacturer)
  /\ settled' = "resolved"
  /\ osCall' = "none"
  /\ osFailure' = "none"
  /\ tried' = << >>
  /\ powerQuery' = "none"
  /\ UNCHANGED <<exempt, promise, flagged>>

\* ----------------------------------------------------- settings navigator
\* private val oemSettingsIntents: Map<String, List<Intent>>, each intent
\* named by its component.
oemSettingsIntents ==
  [m \in {"xiaomi", "huawei", "honor", "oppo", "vivo", "samsung", "oneplus", "realme",
          "asus", "lenovo", "meizu", "nokia"} |->
     CASE m = "xiaomi" ->
            <<"com.miui.securitycenter/com.miui.permcenter.autostart.AutoStartManagementActivity",
              "com.miui.securitycenter/com.miui.powercenter.PowerSettings">>
       [] m = "huawei" ->
            <<"com.huawei.systemmanager/com.huawei.systemmanager.startupmgr.ui.StartupNormalAppListActivity",
              "com.huawei.systemmanager/com.huawei.systemmanager.optimize.process.ProtectActivity",
              "com.huawei.systemmanager/com.huawei.systemmanager.appcontrol.activity.StartupAppControlActivity">>
       [] m = "honor" ->
            <<"com.huawei.systemmanager/com.huawei.systemmanager.startupmgr.ui.StartupNormalAppListActivity">>
       [] m = "oppo" ->
            <<"com.coloros.safecenter/com.coloros.safecenter.startupapp.StartupAppListActivity",
              "com.oppo.safe/com.oppo.safe.permission.startup.StartupAppListActivity",
              "com.coloros.oppoguardelf/com.coloros.powermanager.fuelga498.PowerUsageModelActivity">>
       [] m = "vivo" ->
            <<"com.vivo.permissionmanager/com.vivo.permissionmanager.activity.BgStartUpManagerActivity",
              "com.iqoo.secure/com.iqoo.secure.ui.phoneoptimize.AddWhiteListActivity",
              "com.vivo.abe/com.vivo.applicationbehaviorengine.ui.ExcessivePowerManagerActivity">>
       [] m = "samsung" ->
            <<"com.samsung.android.lool/com.samsung.android.sm.ui.battery.BatteryActivity",
              "com.samsung.android.sm/com.samsung.android.sm.ui.battery.BatteryActivity">>
       [] m = "oneplus" ->
            <<"com.oneplus.security/com.oneplus.security.chainlaunch.view.ChainLaunchAppListActivity">>
       [] m = "realme" ->
            <<"com.coloros.safecenter/com.coloros.safecenter.startupapp.StartupAppListActivity",
              "com.oppo.safe/com.oppo.safe.permission.startup.StartupAppListActivity">>
       [] m = "asus" ->
            <<"com.asus.mobilemanager/com.asus.mobilemanager.autostart.AutoStartActivity",
              "com.asus.mobilemanager/com.asus.mobilemanager.entry.FunctionActivity">>
       [] m = "lenovo" ->
            <<"com.lenovo.security/com.lenovo.security.purebackground.PureBackgroundActivity">>
       [] m = "meizu" ->
            <<"com.meizu.safe/com.meizu.safe.powerui.PowerAppPermissionActivity">>
       [] m = "nokia" ->
            <<"com.evenwell.powersaving.g3/com.evenwell.powersaving.g3.exception.PowerSaverExceptionActivity">>]

IGNORE_BATTERY_OPTIMIZATION_SETTINGS == "android.settings.IGNORE_BATTERY_OPTIMIZATION_SETTINGS"
APPLICATION_DETAILS_SETTINGS == "android.settings.APPLICATION_DETAILS_SETTINGS"
BATTERY_SAVER_SETTINGS == "android.settings.BATTERY_SAVER_SETTINGS"
POWER_USAGE_SUMMARY == "android.intent.action.POWER_USAGE_SUMMARY"
SETTINGS == "android.settings.SETTINGS"

\* A candidate of an ordered search: the target, and whether isActivityAvailable
\* is asked before tryStartActivity.
Candidate(t, p) == [target |-> t, probed |-> p]

\* What the OS does with one candidate: the answer of the probe and the
\* outcome of the launch.
CandidateOutcomes == [probe : ProbeOutcomes, launch : LaunchOutcomes]

\* `oemSettingsIntents[manufacturer]`, with no profile as the empty list
Profile(m) ==
  IF Spell(m) \in DOMAIN oemSettingsIntents
  THEN [i \in DOMAIN oemSettingsIntents[Spell(m)] |-> Candidate(oemSettingsIntents[Spell(m)][i], FALSE)]
  ELSE << >>

FallbacksSwapped ==
  <<Candidate(APPLICATION_DETAILS_SETTINGS, FALSE),
    Candidate(IGNORE_BATTERY_OPTIMIZATION_SETTINGS, FALSE)>>

\* "Fallback 1" openBatteryOptimizationSettingsInternal(), "Fallback 2"
\* openAppDetailsSettings(): both call startActivity without a probe.
Fallbacks ==
  <<Candidate(IGNORE_BATTERY_OPTIMIZATION_SETTINGS, FALSE),
    Candidate(APPLICATION_DETAILS_SETTINGS, FALSE)>>

PowerSaveCandidatesRootFirst ==
  <<Candidate(SETTINGS, FALSE),
    Candidate(BATTERY_SAVER_SETTINGS, TRUE),
    Candidate(POWER_USAGE_SUMMARY, TRUE)>>

\* "Try 1", "Try 2", "Try 3" of openPowerSaveModeSettings
PowerSaveCandidates ==
  <<Candidate(BATTERY_SAVER_SETTINGS, TRUE),
    Candidate(POWER_USAGE_SUMMARY, TRUE),
    Candidate(SETTINGS, FALSE)>>

\* isActivityAvailable(intent) && tryStartActivity(intent) for a probed
\* candidate, tryStartActivity(intent) for the others.
TryCandidate(c, o) ==
  IF c.probed /\ o.probe # "resolves" THEN "skipped"
  ELSE IF o.launch = "ok" THEN "ok" ELSE "failed"

StopsOnAttempt(outcome) == outcome # "skipped"

StopsNever(outcome) == FALSE

\* `if (tryStartActivity(intent)) { promise.resolve(true); return }`
Stops(outcome) == outcome = "ok"

\* The candidates from position i on, tried in order until one starts.
RECURSIVE TryInOrder(_, _, _)
TryInOrder(cands, os, i) ==
  IF i > Len(cands) THEN << >>
  ELSE LET outcome == TryCandidate(cands[i], os[i])
       IN  IF Stops(outcome)
           THEN <<Entry(cands[i].target, outcome)>>
           ELSE <<Entry(cands[i].target, outcome)>> \o TryInOrder(cands, os, i + 1)

\* What a search over `cands` records and resolves with.
Search(name, cands, os) ==
  /\ Called(name)
  /\ tried' = TryInOrder(cands, os, 1)
  /\ promise' = (Launched(tried') # {})
  /\ settled' = "resolved"
  /\ osCall' = (IF Attempted(tried') # {} THEN "startActivity" ELSE "queryIntentActivities")
  /\ osFailure' = (IF Launched(tried') # {} THEN "none" ELSE "notStarted")
  /\ powerQuery' = "none"
  /\ UNCHANGED <<exempt, promiseString>>

\* `intent.addFlags(Intent.FLAG_ACTIVITY_NEW_TASK)` of tryStartActivity, on the
\* intent it is handed: the intents of the table among those gone through.
\* The fallback intents are built anew by each call.
FlaggedBy(tr) ==
  {tr[i].target : i \in {j \in DOMAIN tr : j <= Len(Profile(Lowercase(manufacturer)))}}

\* override fun openOEMSettings(promise: Promise)
openOEMSettings(os) ==
  /\ Search("openOEMSettings", Profile(Lowercase(manufacturer)) \o Fallbacks, os)
  /\ flagged' = flagged \cup FlaggedBy(tried')

\* override fun openPowerSaveModeSettings(promise: Promise)
openPowerSaveModeSettings(os) ==
  /\ Search("openPowerSaveModeSettings", PowerSaveCandidates, os)
  /\ UNCHANGED flagged

\* override fun openBatteryOptimizationSettings(promise: Promise)
openBatteryOptimizationSettings(os) ==
  /\ Search("openBatteryOptimizationSettings", SubSeq(Fallbacks, 1, 1), os)
  /\ UNCHANGED flagged

\* ------------------------------------------------- the Android device
\* Any of the devices studied, nothing called yet. Before Android 6.0 the OS
\* keeps no exemption status.
InitDevice ==
  /\ NothingCalled
  /\ isHeldMayThrow = FALSE
  /\ platform = "android"
  /\ sdkInt \in SdkLevels
  /\ manufacturer \in Manufacturers
  /\ exempt \in (IF HasBatteryOptimizationApi THEN BOOLEAN ELSE {FALSE})
  /\ tried = << >>
  /\ promiseString = Null
  /\ settled = "resolved"
  /\ prevEvent = "init"
  /\ powerQuery = "none"

\* The outcomes of a search whose candidates are launched without a probe.
Unprobed(n) == [1..n -> {o \in CandidateOutcomes : o.probe = "resolves"}]

IsIgnoring == \E pm \in PowerQueryOutcomes : isIgnoringBatteryOptimizations(pm)

RequestExemption ==
  \E pm \in PowerQueryOutcomes, probe \in ProbeOutcomes, launch \in LaunchOutcomes :
    requestBatteryOptimizationExemption(pm, probe, launch)

UserExemption == \E b \in BOOLEAN : UserSetsExemption(b)

\* What the OS can do with candidate c: a candidate launched without a probe
\* has no probe outcome.
OutcomesOf(c) ==
  IF c.probed THEN CandidateOutcomes ELSE {o \in CandidateOutcomes : o.probe = "resolves"}

\* The OS outcomes of a search from candidate i on. The OS decides nothing
\* about a candidate behind one that started: the search does not reach it.
RECURSIVE Runs(_, _)
Runs(cands, i) ==
  IF i > Len(cands) THEN {<< >>}
  ELSE LET started == {o \in OutcomesOf(cands[i]) : TryCandidate(cands[i], o) = "ok"}
           others  == OutcomesOf(cands[i]) \ started
           rest    == [j \in 1..(Len(cands) - i) |-> [probe |-> "resolves", launch |-> "ok"]]
       IN  {<<o>> \o rest : o \in started}
             \cup {<<o>> \o r : o \in others, r \in Runs(cands, i + 1)}

\* The OS outcomes of openOEMSettings on each device, and of
\* openPowerSaveModeSettings.
OemRuns == [m \in Manufacturers \cup {Null} |-> Runs(Profile(Lowercase(m)) \o Fallbacks, 1)]
PowerSaveRuns == Runs(PowerSaveCandidates, 1)

OpenOEM == \E os \in OemRuns[manufacturer] : openOEMSettings(os)

OpenPowerSave == \E os \in PowerSaveRuns : openPowerSaveModeSettings(os)

OpenBatteryOptimization == \E os \in Unprobed(1) : openBatteryOptimizationSettings(os)

GetManufacturer == getDeviceManufacturer

NextDevice ==
  IsIgnoring \/ RequestExemption \/ UserExemption \/ OpenOEM \/ OpenPowerSave
    \/ OpenBatteryOptimization \/ GetManufacturer

\* The methods of the Android module other than the wake-lock ones, called in
\* any order on any of the devices, while the user changes the exemption.
SpecDevice == InitDevice /\ [][NextDevice]_vars

\* ------------------------------------------------------ the iOS module
\* `resolve(@"Apple")`
IOS_MANUFACTURER == <<"A", "p", "p", "l", "e">>

\* The methods of the iOS module that resolve with a boolean.
IosBooleanMethods ==
  {"acquireWakeLock", "releaseWakeLock", "isWakeLockHeld", "isIgnoringBatteryOptimizations",
   "requestBatteryOptimizationExemption", "isPowerSaveMode", "openPowerSaveModeSettings",
   "openOEMSettings", "openBatteryOptimizationSettings", "isDeviceIdleMode"}

IosResolvedValueTracking(name) ==
  IF name = "isWakeLockHeld" THEN event = "acquireWakeLock"
  ELSE name \in {"acquireWakeLock", "releaseWakeLock", "isIgnoringBatteryOptimizations",
                 "requestBatteryOptimizationExemption"}

\* `resolve(@(YES))` or `resolve(@(NO))` of each method
IosResolvedValue(name) ==
  name \in {"acquireWakeLock", "releaseWakeLock", "isIgnoringBatteryOptimizations",
            "requestBatteryOptimizationExemption"}

\* What every method of the iOS module does: it resolves, and touches nothing.
IosCalled(name, tag) ==
  /\ platform = "ios"
  /\ event' = name
  /\ prevEvent' = event
  /\ argTag' = tag
  /\ settled' = "resolved"
  /\ osCall' = "none"
  /\ osFailure' = "none"
  /\ powerQuery' = "none"
  /\ tried' = << >>
  /\ UNCHANGED wakeLockVars
  /\ UNCHANGED <<sdkInt, manufacturer, exempt, platform, flagged>>
  /\ UNCHANGED screenVars
  /\ UNCHANGED queueVars

\* - (void)acquireWakeLock:(NSString *)tag timeout:(double)timeout resolve: reject:
ios_acquireWakeLock(tag, timeout) ==
  /\ IosCalled("acquireWakeLock", tag)
  /\ promise' = IosResolvedValue("acquireWakeLock")
  /\ UNCHANGED promiseString

\* The other methods that resolve with a boolean: they take no argument.
ios_booleanMethod(name) ==
  /\ name # "acquireWakeLock"
  /\ IosCalled(name, "-")
  /\ promise' = IosResolvedValue(name)
  /\ UNCHANGED promiseString

\* - (void)getDeviceManufacturer:(RCTPromiseResolveBlock)resolve reject:
ios_getDeviceManufacturer ==
  /\ IosCalled("getDeviceManufacturer", "-")
  /\ promiseString' = IOS_MANUFACTURER
  /\ UNCHANGED promise

\* The iOS module, nothing called yet: there is no Build and no power service.
InitIOS ==
  /\ NothingCalled
  /\ isHeldMayThrow = FALSE
  /\ platform = "ios"
  /\ sdkInt = 0
  /\ manufacturer = Null
  /\ exempt = FALSE
  /\ tried = << >>
  /\ promiseString = Null
  /\ settled = "resolved"
  /\ prevEvent = "init"
  /\ powerQuery = "none"

IosAcquire == \E tag \in Tags, timeout \in Timeouts : ios_acquireWakeLock(tag, timeout)

IosBoolean == \E name \in IosBooleanMethods : ios_booleanMethod(name)

IosGetManufacturer == ios_getDeviceManufacturer

NextIOS == IosAcquire \/ IosBoolean \/ IosGetManufacturer

InitFacade == InitDevice \/ InitIOS

NextFacade == NextDevice \/ NextIOS

\* The facade over whichever native module the platform registers.
SpecFacade == InitFacade /\ [][NextFacade]_vars

\* ------------------------------------------------------- the JS facade
\* `tag: string = 'BackgroundGuardian'`, `timeout: number = 86400000`
DEFAULT_TAG == "BackgroundGuardian"
DEFAULT_TIMEOUT == 86400000

\* The functions of the facade that take no argument.
FacadeFunctions ==
  {"releaseWakeLock", "isWakeLockHeld", "enableScreenWakeLock", "disableScreenWakeLock",
   "isIgnoringBatteryOptimizations", "requestBatteryOptimizationExemption", "isPowerSaveMode",
   "openPowerSaveModeSettings", "openOEMSettings", "openBatteryOptimizationSettings",
   "isDeviceIdleMode", "getDeviceManufacturer"}

\* An argument the caller may leave out: the empty sequence when left out (or
\* passed as undefined), else the one value passed.
Optional(values) == {<< >>} \cup {<<v>> : v \in values}

\* What a native promise does: it resolves with a value (written as JS prints
\* it) or rejects with an error.
NativeOutcomes(fn) ==
  [kind : {"resolve"},
   value : IF fn = "getDeviceManufacturer" THEN {"xiaomi", "google", "Apple", "null"}
           ELSE {"true", "false"}]
    \cup [kind : {"reject"}, value : {"Native error", "Component not found"}]

DefaultedAlways(arg, default) == default

\* The default value of a parameter: used when the argument is left out
Defaulted(arg, default) == IF arg = << >> THEN default ELSE arg[1]

ReturnedCaught(outcome) ==
  IF outcome.kind = "reject" THEN [kind |-> "resolve", value |-> "false"] ELSE outcome

\* `return NativeBackgroundGuardian.f(...)`: the caller gets the native promise
Returned(outcome) == outcome

\* What a call of the facade leaves alone: everything native.
FacadeOnly ==
  /\ UNCHANGED wakeLockVars
  /\ UNCHANGED <<event, argTag, promise, osCall, osFailure>>
  /\ UNCHANGED <<sdkInt, manufacturer, exempt, tried, promiseString, settled, prevEvent,
                 powerQuery, platform, hasActivity, keepScreenOn, uiQueue, flagged>>
  /\ UNCHANGED queueVars

\* export function acquireWakeLock(tag = 'BackgroundGuardian', timeout = 86400000)
js_acquireWakeLock(tag, timeout, outcome) ==
  /\ facade' = [fn |-> "acquireWakeLock", tag |-> tag, timeout |-> timeout,
                nativeTag |-> Defaulted(tag, DEFAULT_TAG),
                nativeTimeout |-> Defaulted(timeout, DEFAULT_TIMEOUT),
                native |-> outcome, result |-> Returned(outcome)]
  /\ FacadeOnly

\* export function releaseWakeLock() ... getDeviceManufacturer()
js_function(fn, outcome) ==
  /\ facade' = [fn |-> fn, native |-> outcome, result |-> Returned(outcome)]
  /\ FacadeOnly

JsAcquire ==
  \E tag \in Optional(Tags), timeout \in Optional(Timeouts \cup {DEFAULT_TIMEOUT}),
     outcome \in NativeOutcomes("acquireWakeLock") :
    js_acquireWakeLock(tag, timeout, outcome)

JsFunction ==
  \E fn \in FacadeFunctions : \E outcome \in NativeOutcomes(fn) : js_function(fn, outcome)

NextJs == JsAcquire \/ JsFunction

\* The facade over a native module that may resolve or reject anything.
SpecJs == Init /\ [][NextJs]_vars

\* ------------------------------------------------- screen keep-awake flag
\* Runnables posted to the UI thread and not run yet.
MaxPending == 1

ScreenMethods == {"enableScreenWakeLock", "disableScreenWakeLock"}

\* A runnable of runOnUiThread: the method that posted it, and whether the
\* activity it captured has gone since.
Runnable(name) == [op |-> name, stale |-> FALSE]

WindowFlagAlwaysSet(name) == TRUE

\* window.addFlags(FLAG_KEEP_SCREEN_ON) / window.clearFlags(FLAG_KEEP_SCREEN_ON)
WindowFlag(name) == (name = "enableScreenWakeLock")

ScreenHandleCleared == NoLock

\* The screen methods do not read or write the field wakeLock.
ScreenHandle == wakeLock

\* What the screen methods, the UI thread and the activity lifecycle leave alone.
ScreenOnly ==
  /\ wakeLock' = ScreenHandle
  /\ Remember
  /\ osCall' = "none"
  /\ osFailure' = "none"
  /\ UNCHANGED <<locks, isHeldMayThrow, createdSinceRelease, expiredSinceRelease>>
  /\ UNCHANGED <<sdkInt, manufacturer, exempt, tried, promiseString, prevEvent, powerQuery,
                 platform, facade, flagged>>
  /\ UNCHANGED queueVars

\* override fun enableScreenWakeLock(promise: Promise)
\* override fun disableScreenWakeLock(promise: Promise)
screenWakeLock(name) ==
  /\ event' = name
  /\ argTag' = "-"
  /\ ScreenOnly
  /\ UNCHANGED <<hasActivity, keepScreenOn>>
  /\ IF ~hasActivity
     THEN \* "No current activity": resolve(false); return
          /\ promise' = FALSE
          /\ settled' = "resolved"
          /\ UNCHANGED uiQueue
     ELSE \* UiThreadUtil.runOnUiThread { ... }
          /\ Len(uiQueue) < MaxPending
          /\ uiQueue' = Append(uiQueue, Runnable(name))
          /\ settled' = "pending"
          /\ UNCHANGED promise

\* The UI thread runs the oldest runnable: the flag of the window of the
\* captured activity is set or cleared, then resolve(true).
RunOnUiThread ==
  /\ uiQueue # << >>
  /\ event' = "runOnUiThread"
  /\ argTag' = Head(uiQueue).op
  /\ ScreenOnly
  /\ uiQueue' = Tail(uiQueue)
  /\ keepScreenOn' = IF Head(uiQueue).stale THEN keepScreenOn
                     ELSE WindowFlag(Head(uiQueue).op)
  /\ promise' = TRUE
  /\ settled' = "resolved"
  /\ UNCHANGED hasActivity

\* The foreground activity comes or goes: a new window starts without the
\* flag, and the runnables posted before hold the activity that has gone.
ActivityChange(present) ==
  /\ hasActivity # present
  /\ hasActivity' = present
  /\ keepScreenOn' = FALSE
  /\ uiQueue' = [i \in DOMAIN uiQueue |-> [uiQueue[i] EXCEPT !.stale = TRUE]]
  /\ event' = "os"
  /\ ScreenOnly
  /\ UNCHANGED <<argTag, promise, settled>>

EnableScreen == screenWakeLock("enableScreenWakeLock")

DisableScreen == screenWakeLock("disableScreenWakeLock")

ActivityResumed == ActivityChange(TRUE)

ActivityGone == ActivityChange(FALSE)

NextScreen ==
  EnableScreen \/ DisableScreen \/ RunOnUiThread \/ ActivityResumed \/ ActivityGone
    \/ Acquire \/ Release \/ IsHeld \/ Tick \/ Expire

\* The screen methods and the wake-lock methods of the module, called in any
\* order while activities come and go and the UI thread runs what was posted.
SpecScreen == Init /\ [][NextScreen]_vars

\* ------------------------------------------- requests issued concurrently
\* Requests issued and not run yet.
MaxQueue == 2

\* A call of a promise method of the TurboModule: the caller gets the promise
\* at once, and the method runs later on the thread that runs the methods of
\* native modules, one call at a time, in the order of the calls.
Request(name, tag, timeout) == [op |-> name, tag |-> tag, timeout |-> timeout]

AcquireRequests == {Request("acquireWakeLock", "Sync", t) : t \in Timeouts}

Requests ==
  AcquireRequests \cup {Request("releaseWakeLock", "-", 0), Request("isWakeLockHeld", "-", 0)}

\* What issuing requests leaves alone: no method of the module runs.
IssueOnly ==
  /\ UNCHANGED wakeLockVars
  /\ UNCHANGED <<event, argTag, promise, osCall, osFailure>>
  /\ UNCHANGED deviceVars

\* The caller issues one more request without awaiting the ones in flight.
Issue(r) ==
  /\ pair.phase # "running"
  /\ Len(queue) < MaxQueue
  /\ queue' = Append(queue, r)
  /\ pair' = NoPair
  /\ IssueOnly

\* Promise.all([acquireWakeLock(...), acquireWakeLock(...)]) with nothing else
\* in flight.
IssuePair(a, b) ==
  /\ queue = << >>
  /\ queue' = <<a, b>>
  /\ pair' = [phase |-> "running", created |-> 0, expired |-> FALSE]
  /\ IssueOnly

\* The native-module thread runs the oldest request to its end.
Dispatch ==
  /\ queue # << >>
  /\ LET r == Head(queue)
     IN  IF r.op = "acquireWakeLock"
         THEN \E os \in AcquireOutcomes, q \in QueryOutcomes :
                acquireWakeLock(r.tag, r.timeout, os, q)
         ELSE IF r.op = "releaseWakeLock"
         THEN \E os \in ReleaseOutcomes, q \in QueryOutcomes : releaseWakeLock(os, q)
         ELSE \E q \in QueryOutcomes : isWakeLockHeld(q)
  /\ queue' = Tail(queue)
  /\ pair' = IF pair.phase # "running" THEN pair
             ELSE [phase   |-> IF Tail(queue) = << >> THEN "done" ELSE "running",
                   created |-> pair.created
                                 + (IF osCall' = "acquire" /\ osFailure' = "none" THEN 1 ELSE 0),
                   expired |-> pair.expired]

IssueOne == \E r \in Requests : Issue(r)

IssueTwoAcquires == \E a \in AcquireRequests, b \in AcquireRequests : IssuePair(a, b)

NextConcurrent == IssueOne \/ IssueTwoAcquires \/ Dispatch \/ Tick \/ Expire

\* The wake-lock methods called without awaiting, while the OS clock runs.
SpecConcurrent == Init /\ [][NextConcurrent]_vars

TypeOK ==
  /\ wakeLock \in {NoLock} \cup DOMAIN locks
  /\ DOMAIN locks \subseteq 1..MaxLocks
  /\ promise \in BOOLEAN
  /\ createdSinceRelease \in 0..2
  /\ expiredSinceRelease \in BOOLEAN

\* ------------------------------------------------------------------ claims
\* The tracked handle exists and the OS holds it.
TrackedActive == wakeLock # NoLock /\ locks[wakeLock].held

\* The locks the OS holds.
HeldLocks == {l \in DOMAIN locks : locks[l].held}

\* C1 as stated: in every run of acquireWakeLock calls with no releaseWakeLock
\* in between, at most one OS wake lock is created.
C1_OneResourcePerRun == createdSinceRelease <= 1

\* C1, amended: in every run of acquireWakeLock calls with no releaseWakeLock
\* and no timeout expiry of the tracked lock in between, at most one OS wake
\* lock is created, and every call after the one that created it resolves true
\* without creating another.
C1_OneResourceUntilExpiry ==
  ~expiredSinceRelease =>
     /\ createdSinceRelease <= 1
     /\ (event = "acquireWakeLock" /\ createdSinceRelease = 1) => promise = TRUE

\* A second acquireWakeLock resolved true on the early return, one lock created.
C1_Witness ==
  /\ event = "acquireWakeLock"
  /\ osCall = "isHeld"
  /\ promise = TRUE
  /\ createdSinceRelease = 1
  /\ ~expiredSinceRelease

\* C2 as stated: the module tracks at most one handle and at most one OS wake
\* lock it created is held.
C2_AtMostOneHeld ==
  /\ wakeLock \in {NoLock} \cup DOMAIN locks
  /\ Cardinality(HeldLocks) <= 1

\* C2, amended: the module tracks at most one handle, and every held OS wake
\* lock other than the tracked one is a lock that a failed releaseWakeLock
\* (one that resolved false) left held.
C2_AtMostOneHeldButLeaked ==
  /\ wakeLock \in {NoLock} \cup DOMAIN locks
  /\ \A l \in HeldLocks : l = wakeLock \/ locks[l].releaseFailed

\* A new lock is tracked and held next to one a failed release left held.
C2_Witness ==
  /\ TrackedActive
  /\ \E l \in HeldLocks : l # wakeLock /\ locks[l].releaseFailed

\* C3: an isWakeLockHeld that directly follows a releaseWakeLock resolves
\* false, whatever the release resolved.
C3_NotHeldAfterRelease ==
  (event = "isWakeLockHeld" /\ prevRelease # "none") => promise = FALSE

\* isWakeLockHeld ran right after a release that resolved false and left the OS lock held.
C3_Witness ==
  /\ event = "isWakeLockHeld"
  /\ prevRelease = "resolvedFalse"
  /\ HeldLocks # {}

C5_NoHandleAfterFailure ==
  (event = "acquireWakeLock" /\ osFailure \in {"noService", "denied", "error"}) =>
     (promise = FALSE /\ wakeLock = NoLock)

\* C5, amended: an acquireWakeLock that fails at the OS resolves false and
\* records no new handle: the field keeps what it held before the call (null,
\* or the stale handle), which the OS does not hold.
C5_NoNewHandleAfterFailure ==
  [][(event' = "acquireWakeLock" /\ osFailure' \in {"noService", "denied", "error"}) =>
       (promise' = FALSE /\ wakeLock' = wakeLock /\ ~TrackedActive' /\ HeldLocks' = HeldLocks)]_vars

\* A failed acquireWakeLock left the stale handle in the field.
C5_Witness ==
  /\ event = "acquireWakeLock"
  /\ osFailure \in {"denied", "error"}
  /\ promise = FALSE
  /\ wakeLock # NoLock

\* C6: when release() throws, releaseWakeLock clears the field and resolves false.
C6_ReleaseThrows ==
  (event = "releaseWakeLock" /\ osCall = "release" /\ osFailure = "throws") =>
     (wakeLock = NoLock /\ promise = FALSE)

\* release() threw and the OS still holds the lock.
C6_Witness ==
  /\ event = "releaseWakeLock"
  /\ osCall = "release"
  /\ osFailure = "throws"
  /\ \E l \in HeldLocks : locks[l].releaseFailed

\* C7: acquireWakeLock while the tracked lock is held resolves true and leaves
\* the handle and the lock (its tag, its timer) as they were, whatever tag and
\* timeout it is called with.
C7_AcquireWhileHeld ==
  [][(event' = "acquireWakeLock" /\ TrackedActive) =>
       (promise' = TRUE /\ wakeLock' = wakeLock /\ locks' = locks)]_vars

\* acquireWakeLock("Other") resolved true while the "Sync" lock stays tracked and held.
C7_Witness ==
  /\ event = "acquireWakeLock"
  /\ argTag = "Other"
  /\ promise = TRUE
  /\ TrackedActive
  /\ locks[wakeLock].tag = "BackgroundGuardian:WakeLock:Sync"

\* C8: a tracked, held lock is eventually not held, even if releaseWakeLock is
\* never called: the OS releases it when its timeout has elapsed.
C8_HeldLeadsToNoLock == TrackedActive ~> ~TrackedActive

\* The timer released the tracked lock with no releaseWakeLock call.
C8_Witness ==
  /\ wakeLock # NoLock
  /\ ~locks[wakeLock].held
  /\ expiredSinceRelease
  /\ event = "os"

\* C9 as stated: after a second successful acquireWakeLock (one that found the
\* lock held), a single releaseWakeLock leaves the lock held.
C9_ReferenceCounted ==
  [][(event = "acquireWakeLock" /\ osCall = "isHeld" /\ promise = TRUE
        /\ event' = "releaseWakeLock") => HeldLocks' # {}]_vars

\* C10: isWakeLockHeld resolves true exactly when a handle is tracked and the
\* OS answers that it is held; when the query throws it resolves false.
C10_IsWakeLockHeld ==
  event = "isWakeLockHeld" =>
     promise = (wakeLock # NoLock /\ osFailure = "none" /\ locks[wakeLock].held)

\* The isHeld query threw on a held lock and isWakeLockHeld resolved false.
C10_Witness ==
  /\ event = "isWakeLockHeld"
  /\ osFailure = "throws"
  /\ TrackedActive
  /\ promise = FALSE

\* The last call was requestBatteryOptimizationExemption.
Requested == event = "requestBatteryOptimizationExemption"

C12_NotExemptLaunch ==
  [][(~exempt /\ Requested') =>
       /\ tried' = <<Entry(REQUEST_IGNORE_BATTERY_OPTIMIZATIONS, "skipped")>> =>
            (settled' = "resolved" /\ ~promise' /\ Attempted(tried') = {})
       /\ tried' = <<Entry(REQUEST_IGNORE_BATTERY_OPTIMIZATIONS, "failed")>> =>
            (settled' = "resolved" /\ ~promise')
       /\ (settled' = "resolved" /\ promise') =>
            tried' = <<Entry(REQUEST_IGNORE_BATTERY_OPTIMIZATIONS, "ok")>>]_vars

\* The launch of the dialog threw a SecurityException: false.
C12_Witness ==
  /\ Requested
  /\ ~exempt
  /\ tried = <<Entry(REQUEST_IGNORE_BATTERY_OPTIMIZATIONS, "failed")>>
  /\ osFailure = "security"
  /\ ~promise

\* The last call was isIgnoringBatteryOptimizations.
Queried == event = "isIgnoringBatteryOptimizations"

\* C13: requestBatteryOptimizationExemption returns once the launch attempt is
\* over and does not change the exemption status: only the user changes it, the
\* change resolves no promise, and isIgnoringBatteryOptimizations answers with
\* the status at the time it is called, false until the user has granted.
C13_StatusOnlyByUser ==
  [][/\ Requested' => exempt' = exempt
     /\ exempt' # exempt => (event' = "os" /\ promise' = promise /\ settled' = settled)
     /\ (Queried' /\ settled' = "resolved" /\ promise') => exempt'
     /\ (Queried' /\ powerQuery' = "ok") => (settled' = "resolved" /\ promise' = exempt')]_vars

\* The dialog was launched and the request returned true, the app is not exempt.
C13_Witness ==
  /\ Requested
  /\ promise
  /\ Launched(tried) # {}
  /\ ~exempt

\* C14 (as stated): on an OS version that predates the battery-optimization
\* feature (API < 23) isIgnoringBatteryOptimizations always returns true; on a
\* supporting version it returns the exemption status the OS answers with.
C14_TrueBeforeApi23 ==
  Queried =>
    IF sdkInt < VERSION_CODES_M
    THEN settled = "resolved" /\ promise
    ELSE powerQuery = "ok" => (settled = "resolved" /\ promise = exempt)

\* The targets of a record of attempts, in the order they were gone through.
TargetsOf(tr) == [i \in DOMAIN tr |-> tr[i].target]

\* Sequence a is a prefix of sequence b.
IsPrefix(a, b) == Len(a) <= Len(b) /\ \A i \in DOMAIN a : a[i] = b[i]

\* Nothing comes after a target that launched.
StopsAtFirstLaunch(tr) == \A i \in DOMAIN tr : tr[i].outcome = "ok" => i = Len(tr)

\* The profile the vendor's Build.MANUFACTURER string stands for, read off
\* the table by hand.
ExpectedProfile ==
  IF manufacturer = <<"X", "i", "a", "o", "m", "i">> THEN oemSettingsIntents["xiaomi"]
  ELSE IF manufacturer = <<"H", "U", "A", "W", "E", "I">> THEN oemSettingsIntents["huawei"]
  ELSE IF manufacturer = <<"s", "a", "m", "s", "u", "n", "g">> THEN oemSettingsIntents["samsung"]
  ELSE << >>

\* The last call was openOEMSettings.
OpenedOEM == event = "openOEMSettings"

\* C15: openOEMSettings looks up the lowercased manufacturer and tries the
\* targets of its profile strictly in listed order; the first target that
\* launches ends the call with true, and no later candidate or fallback is
\* attempted.
C15_ProfileInOrder ==
  OpenedOEM =>
    /\ settled = "resolved"
    /\ IsPrefix(SubSeq(TargetsOf(tried), 1, Min(Len(tried), Len(ExpectedProfile))), ExpectedProfile)
    /\ Len(tried) >= Min(1, Len(ExpectedProfile))
    /\ \A i \in DOMAIN tried : i < Len(tried) => tried[i].outcome = "failed"
    /\ \A i \in DOMAIN tried :
         (i <= Len(ExpectedProfile) /\ tried[i].outcome = "ok") => (promise /\ Len(tried) = i)

\* A Huawei device: the first target failed, the second launched, the third
\* and the fallbacks were left alone.
C15_Witness ==
  /\ OpenedOEM
  /\ manufacturer = <<"H", "U", "A", "W", "E", "I">>
  /\ Len(tried) = 2
  /\ tried[1].outcome = "failed"
  /\ tried[2] = Entry(oemSettingsIntents["huawei"][2], "ok")
  /\ promise

C17_PowerSaveInOrder ==
  event = "openPowerSaveModeSettings" =>
    /\ settled = "resolved"
    /\ tried # << >>
    /\ IsPrefix(TargetsOf(tried), <<BATTERY_SAVER_SETTINGS, POWER_USAGE_SUMMARY, SETTINGS>>)
    /\ StopsAtFirstLaunch(tried)
    /\ promise = (tried[Len(tried)].outcome = "ok")
    /\ ~promise => Len(tried) = 3

\* No handler for the battery-saver page, the power-usage summary threw, the
\* settings root opened.
C17_Witness ==
  /\ event = "openPowerSaveModeSettings"
  /\ tried = <<Entry(BATTERY_SAVER_SETTINGS, "skipped"), Entry(POWER_USAGE_SUMMARY, "failed"),
               Entry(SETTINGS, "ok")>>
  /\ promise

\* No character of str is an upper-case letter.
NoUpperCase(str) ==
  \A i \in DOMAIN str : \A j \in DOMAIN UpperCaseLetters : str[i] # UpperCaseLetters[j]

\* The identifier each Build.MANUFACTURER studied stands for, written by hand.
ExpectedManufacturerId ==
  IF manufacturer = <<"X", "i", "a", "o", "m", "i">> THEN <<"x", "i", "a", "o", "m", "i">>
  ELSE IF manufacturer = <<"H", "U", "A", "W", "E", "I">> THEN <<"h", "u", "a", "w", "e", "i">>
  ELSE IF manufacturer = <<"s", "a", "m", "s", "u", "n", "g">>
       THEN <<"s", "a", "m", "s", "u", "n", "g">>
  ELSE IF manufacturer = <<"G", "o", "o", "g", "l", "e">> THEN <<"g", "o", "o", "g", "l", "e">>
  ELSE Null

\* The last call was getDeviceManufacturer.
GotManufacturer == event = "getDeviceManufacturer"

C19_IosDefaults ==
  (platform = "ios" /\ event # "init") =>
    /\ settled = "resolved"
    /\ osCall = "none"
    /\ tried = << >>
    /\ event \in {"acquireWakeLock", "releaseWakeLock", "isIgnoringBatteryOptimizations",
                  "requestBatteryOptimizationExemption"} => promise
    /\ event \in {"isWakeLockHeld", "isPowerSaveMode", "isDeviceIdleMode",
                  "openPowerSaveModeSettings", "openOEMSettings",
                  "openBatteryOptimizationSettings"} => ~promise
    /\ GotManufacturer => promiseString = IOS_MANUFACTURER

\* isWakeLockHeld right after acquireWakeLock returned true: false.
C19_Witness ==
  /\ platform = "ios"
  /\ event = "isWakeLockHeld"
  /\ prevEvent = "acquireWakeLock"
  /\ ~promise

\* C20 (as stated): every public operation is total on both platforms:
\* whatever the OS does, the call resolves and never rejects or hangs.
C20_Total == event \notin {"init", "os"} => settled = "resolved"

\* C21: each function of the JS facade returns the outcome of the native
\* method of the same name: the native value unchanged when the native promise
\* resolves, and a rejection with the same error when it rejects.
C21_FacadePassesThrough ==
  facade.fn # "none" =>
    /\ facade.native.kind = "resolve" =>
         (facade.result.kind = "resolve" /\ facade.result.value = facade.native.value)
    /\ facade.native.kind = "reject" =>
         (facade.result.kind = "reject" /\ facade.result.value = facade.native.value)

\* openOEMSettings rejected by the native module: the caller gets the rejection.
C21_Witness ==
  /\ facade.fn = "openOEMSettings"
  /\ facade.native = [kind |-> "reject", value |-> "Component not found"]
  /\ facade.result = [kind |-> "reject", value |-> "Component not found"]

\* C22: acquireWakeLock forwards (tag, timeout) to the native module; the tag
\* is 'BackgroundGuardian' and the timeout 86400000 only when the argument is
\* left out; a tag that is passed, the empty string included, and a timeout
\* that is passed are forwarded unchanged.
C22_Defaults ==
  facade.fn = "acquireWakeLock" =>
    /\ facade.tag = << >> => facade.nativeTag = "BackgroundGuardian"
    /\ facade.tag # << >> => facade.nativeTag = facade.tag[1]
    /\ facade.timeout = << >> => facade.nativeTimeout = 86400000
    /\ facade.timeout # << >> => facade.nativeTimeout = facade.timeout[1]

\* The empty tag with no timeout: forwarded as ('', 86400000).
C22_Witness ==
  /\ facade.fn = "acquireWakeLock"
  /\ facade.tag = <<"">>
  /\ facade.timeout = << >>
  /\ facade.nativeTag = ""
  /\ facade.nativeTimeout = 86400000

C24_Independent ==
  [][/\ event' \in ScreenMethods \cup {"runOnUiThread"} =>
           /\ wakeLock' = wakeLock
           /\ locks' = locks
           /\ TrackedActive' = TrackedActive
     /\ event' \in {"acquireWakeLock", "releaseWakeLock", "isWakeLockHeld"} =>
           /\ keepScreenOn' = keepScreenOn
           /\ uiQueue' = uiQueue]_vars

\* The screen flag was set while the tracked lock is held.
C24_Witness ==
  /\ event = "runOnUiThread"
  /\ argTag = "enableScreenWakeLock"
  /\ keepScreenOn
  /\ TrackedActive

\* C26: a target that passes the probe and whose launch then fails is handled
\* without an error leaving the method: requestBatteryOptimizationExemption
\* resolves false, and openPowerSaveModeSettings goes on to the next
\* candidate (battery saver, then power usage summary, then root settings).
C26_LaunchFailureHandled ==
  /\ (event = "requestBatteryOptimizationExemption"
        /\ tried = <<Entry(REQUEST_IGNORE_BATTERY_OPTIMIZATIONS, "failed")>>) =>
       /\ settled = "resolved"
       /\ promise = FALSE
  /\ event = "openPowerSaveModeSettings" =>
       /\ settled = "resolved"
       /\ \A i \in 1..2 :
            (i \in DOMAIN tried /\ tried[i].outcome = "failed") =>
              /\ Len(tried) > i
              /\ tried[i].target =
                   <<BATTERY_SAVER_SETTINGS, POWER_USAGE_SUMMARY>>[i]
              /\ tried[i + 1].target = <<POWER_USAGE_SUMMARY, SETTINGS>>[i]

\* The battery saver screen passed the probe and failed to start; the power
\* usage summary was opened instead.
C26_Witness ==
  /\ event = "openPowerSaveModeSettings"
  /\ Len(tried) = 2
  /\ tried[1] = Entry(BATTERY_SAVER_SETTINGS, "failed")
  /\ tried[2] = Entry(POWER_USAGE_SUMMARY, "ok")
  /\ promise

\* C30: each call of openOEMSettings, openPowerSaveModeSettings and
\* openBatteryOptimizationSettings starts at most one settings activity, and
\* resolves true exactly when it started one.
C30_AtMostOneSurface ==
  event \in {"openOEMSettings", "openPowerSaveModeSettings",
             "openBatteryOptimizationSettings"} =>
    /\ settled = "resolved"
    /\ Cardinality({i \in DOMAIN tried : tried[i].outcome = "ok"}) <= 1
    /\ promise = (Cardinality({i \in DOMAIN tried : tried[i].outcome = "ok"}) = 1)

\* openPowerSaveModeSettings went through all three candidates and started
\* only the last one.
C30_Witness ==
  /\ event = "openPowerSaveModeSettings"
  /\ Len(tried) = 3
  /\ tried[1].outcome = "skipped"
  /\ tried[2].outcome = "failed"
  /\ tried[3].outcome = "ok"
  /\ promise

\* C27 as stated: the table from manufacturers to settings targets is never
\* changed at run time: after any calls of openOEMSettings every intent of the
\* table is as it was built, with no launch flag set.
C27_TableNeverMutated ==
  \A m \in DOMAIN oemSettingsIntents :
    \A i \in DOMAIN oemSettingsIntents[m] : oemSettingsIntents[m][i] \notin flagged

\* The tracked handle is stale: the field holds a lock the OS no longer holds.
StaleHandle == wakeLock # NoLock /\ ~locks[wakeLock].held

\* C28 as stated: acquireWakeLock called while the tracked handle is stale
\* acquires a new OS lock, tracks it and resolves true, and an isWakeLockHeld
\* that directly follows resolves true.
C28_StaleReplaced ==
  [][/\ (event' = "acquireWakeLock" /\ StaleHandle) =>
           /\ promise' = TRUE
           /\ osCall' = "acquire"
           /\ osFailure' = "none"
           /\ TrackedActive'
     /\ (event = "acquireWakeLock" /\ promise /\ event' = "isWakeLockHeld") =>
           promise' = TRUE]_vars

\* C28, amended: acquireWakeLock called while the tracked handle is stale
\* acquires a new OS lock, tracks it and resolves true when the OS grants the
\* lock, and resolves false and keeps the stale handle when the power service
\* is missing or the acquisition throws; an isWakeLockHeld that directly
\* follows an acquireWakeLock that resolved true resolves true.
C28_StaleReplacedWhenGranted ==
  [][/\ (event' = "acquireWakeLock" /\ StaleHandle /\ osFailure' = "none") =>
           /\ promise' = TRUE
           /\ osCall' = "acquire"
           /\ TrackedActive'
           /\ Cardinality(HeldLocks') = Cardinality(HeldLocks) + 1
     /\ (event' = "acquireWakeLock" /\ StaleHandle /\ osFailure' # "none") =>
           /\ promise' = FALSE
           /\ wakeLock' = wakeLock
           /\ HeldLocks' = HeldLocks
     /\ (event = "acquireWakeLock" /\ promise /\ event' = "isWakeLockHeld") =>
           promise' = TRUE]_vars

\* The second lock acquired since the last release: the first one timed out,
\* and the acquireWakeLock that found it stale acquired and tracks a new one.
C28_Witness ==
  /\ event = "acquireWakeLock"
  /\ osCall = "acquire"
  /\ promise
  /\ createdSinceRelease = 2
  /\ expiredSinceRelease
  /\ TrackedActive

\* C29 as stated: whenever the module tracks no handle, the OS holds no wake
\* lock the module created.
C29_NoUntrackedActiveLock == wakeLock = NoLock => HeldLocks = {}

\* C29, amended: whenever the module tracks no handle, the only wake locks of
\* the module the OS can still hold are locks whose release() threw, in a
\* releaseWakeLock that resolved false; isWakeLockHeld resolves false then.
C29_UntrackedOnlyAfterFailedRelease ==
  /\ wakeLock = NoLock => \A l \in DOMAIN locks : locks[l].held => locks[l].releaseFailed
  /\ (wakeLock = NoLock /\ event = "isWakeLockHeld") => promise = FALSE

\* releaseWakeLock resolved false, and the isWakeLockHeld that followed
\* resolved false while the OS still holds the lock whose release() threw.
C29_Witness ==
  /\ event = "isWakeLockHeld"
  /\ prevRelease = "resolvedFalse"
  /\ promise = FALSE
  /\ wakeLock = NoLock
  /\ \E l \in DOMAIN locks : locks[l].held /\ locks[l].releaseFailed

====
